---- MODULE Spec2Model ----
(***************************************************************************)
(* Model of the smallweb ESM registry: a Hono server that serves files of    *)
(* git revisions (createServer, getConfig, getFileContentAtCommit,           *)
(* findEntryInTree) and rewrites their module specifiers (ImportRewriter).   *)
(*                                                                           *)
(* Text is modelled as sequences of one-character strings, so that           *)
(* startsWith, slice and replace are computed.  A file path is the sequence  *)
(* of its '/'-separated segments.                                            *)
(***************************************************************************)
EXTENDS Integers, Sequences, FiniteSets, TLC

VARIABLES commits, refs, reqs, rw

vars == <<commits, refs, reqs, rw>>

(***************************************************************************)
(* Bounds                                                                    *)
(***************************************************************************)
\* length of a full revision identifier (40 in git)
OidLen == 8
\* number of commits the object store may hold
MaxCommits == 2
\* longest specifier handed to resolveSpecifier
MaxSpecLen == 5
\* most entries of an import table
MaxImports == 2
\* most redirects a client follows
MaxHops == 4

(***************************************************************************)
(* String helpers (JavaScript String methods)                                *)
(***************************************************************************)
\* String.prototype.startsWith
StartsWith(s, p) ==
    /\ Len(p) <= Len(s)
    /\ SubSeq(s, 1, Len(p)) = p

\* String.prototype.slice(0, n)
SliceTo(s, n) == SubSeq(s, 1, IF n < Len(s) THEN n ELSE Len(s))

\* String.prototype.slice(n)
SliceFrom(s, n) == SubSeq(s, n + 1, Len(s))

\* all strings over alphabet cs of length lo..hi
StringsOf(cs, lo, hi) == UNION {[1..n -> cs] : n \in lo..hi}

\* the characters of the class ['"`]; the third is the backtick, spelled out
QuoteChars == {"'", "\"", "backtick"}

(***************************************************************************)
(* ImportRewriter (imports.ts)                                              *)
(*                                                                           *)
(* An import table is the sequence of its [key, value] entries in insertion *)
(* order (the order Object.entries visits them), with distinct keys.        *)
(***************************************************************************)
HasKey(T, k) == \E i \in DOMAIN T : T[i].key = k

Get(T, k) == T[CHOOSE i \in DOMAIN T : T[i].key = k].value

\* specifier.replace(/^['"`]|['"`]$/g, '')
StripQuotes(s) ==
    LET a == IF s # <<>> /\ s[1] \in QuoteChars THEN Tail(s) ELSE s
    IN  IF a # <<>> /\ a[Len(a)] \in QuoteChars THEN SubSeq(a, 1, Len(a) - 1) ELSE a

\* the replacement left out: the value is used as it is
KeepTrailingSlash(v) == v

\* value.replace(/\/$/, '')
StripTrailingSlash(v) ==
    IF v # <<>> /\ v[Len(v)] = "/" THEN SubSeq(v, 1, Len(v) - 1) ELSE v

\* if (this.imports[cleanSpecifier]): the entry exists and its value is truthy
ExactMatch(T, clean) == HasKey(T, clean) /\ Get(T, clean) # <<>>

\* the test without the separator: cleanSpecifier.startsWith(key)
PrefixMatch(key, clean) == StartsWith(clean, key)

\* cleanSpecifier.startsWith(key + '/')
SubpathMatch(key, clean) == StartsWith(clean, key \o <<"/">>)

resolveSpecifier(T, specifier) ==
    LET clean == StripQuotes(specifier)
        hits  == {i \in DOMAIN T : SubpathMatch(T[i].key, clean)}
    IN  IF ExactMatch(T, clean) THEN Get(T, clean)
        ELSE IF hits # {}
             THEN LET i == CHOOSE j \in hits : \A h \in hits : j <= h
                  IN  StripTrailingSlash(T[i].value) \o SliceFrom(clean, Len(T[i].key))
             ELSE clean

\* moduleSpecifier.setLiteralValue(resolved): the literal keeps its quote style
setLiteralValue(node, value) == [node EXCEPT !.spec = value]

processImportDeclaration(T, node) ==
    LET originalSpecifier == node.spec
        resolvedSpecifier == resolveSpecifier(T, originalSpecifier)
    IN  IF resolvedSpecifier # originalSpecifier
        THEN setLiteralValue(node, resolvedSpecifier) ELSE node

processExportDeclaration(T, node) ==
    LET originalSpecifier == node.spec
        resolvedSpecifier == resolveSpecifier(T, originalSpecifier)
    IN  IF resolvedSpecifier # originalSpecifier
        THEN setLiteralValue(node, resolvedSpecifier) ELSE node

processStringLiteralArg(T, node) ==
    LET originalSpecifier == node.spec
        resolvedSpecifier == resolveSpecifier(T, originalSpecifier)
    IN  IF resolvedSpecifier # originalSpecifier
        THEN setLiteralValue(node, resolvedSpecifier) ELSE node

\* processStringLiteralArg applied to an operand of a concatenation
processOperand(T, operand) ==
    IF operand.kind = "StringLiteral"
    THEN [operand EXCEPT !.text = resolveSpecifier(T, operand.text)]
    ELSE operand

\* The argument "spec" + rest[1] + ... + rest[n] is parsed to the left:
\* node.getLeft() is the literal "spec" when there are two operands and a
\* BinaryExpression when there are more; node.getRight() is the last operand.
processBinaryExpressionArg(T, node) ==
    LET n     == Len(node.rest)
        left  == IF n = 1 THEN processStringLiteralArg(T, node) ELSE node
    IN  [left EXCEPT !.rest[n] = processOperand(T, node.rest[n])]

\* The callee of import(...) is the ImportKeyword token of the syntax tree, the
\* callee of f(...) an Identifier; the guard asks for an Identifier whose text
\* is 'import'.
processDynamicImport(T, node) ==
    IF ~(node.callee.kind = "Identifier" /\ node.callee.text = "import")
    THEN node
    ELSE IF node.rest = <<>>
    THEN processStringLiteralArg(T, node)
    ELSE processBinaryExpressionArg(T, node)

processAwaitExpression(T, node) == processDynamicImport(T, node)

\* One statement of a source text: a static import, an export ... from, or a
\* call f("spec") / import("spec"), possibly the operand of await.
ImportKeyword == [kind |-> "ImportKeyword", text |-> "import"]
NoCallee == [kind |-> "none", text |-> ""]
Callees == {ImportKeyword, [kind |-> "Identifier", text |-> "load"]}

\* the operands that follow the first in import("spec" + "/" + name)
Slash == [kind |-> "StringLiteral", text |-> <<"/">>]
Name == [kind |-> "Identifier", text |-> <<"name">>]
Rests == {<<Name>>, <<Slash, Name>>}

NodesOf(specs) ==
    [kind : {"ImportDeclaration", "ExportDeclaration"}, spec : specs,
     callee : {NoCallee}, awaited : {FALSE}, rest : {<<>>}]
    \cup [kind : {"CallExpression"}, spec : specs, callee : Callees, awaited : BOOLEAN,
          rest : {<<>>}]
    \cup [kind : {"CallExpression"}, spec : specs, callee : {ImportKeyword},
          awaited : {FALSE}, rest : Rests]

ImportOf(s) == [kind |-> "ImportDeclaration", spec |-> s, callee |-> NoCallee,
                awaited |-> FALSE, rest |-> <<>>]

\* A leading comment, as the first node of a source text; its text is a
\* sequence of characters in which the directive name is one element.
Directive == "@jsxImportSource"

CommentOf(text) == [kind |-> "Comment", spec |-> text, callee |-> NoCallee,
                    awaited |-> FALSE, rest |-> <<>>]

\* [^\s*]
IsTokenChar(c) == c \notin {" ", "*"}

\* text.match(/@jsxImportSource\s+([^\s*]+)/): the positions i of the directive
\* name at which the expression matches
MatchesAt(text) ==
    {i \in DOMAIN text :
        /\ text[i] = Directive
        /\ i + 1 <= Len(text) /\ text[i + 1] = " "
        /\ \E j \in (i + 2)..Len(text) :
              /\ \A k \in (i + 1)..(j - 1) : text[k] = " "
              /\ IsTokenChar(text[j])}

\* where match[1] starts and ends, for the leftmost match
TokenStart(text) ==
    LET i == CHOOSE i \in MatchesAt(text) : \A k \in MatchesAt(text) : i <= k
    IN  CHOOSE j \in (i + 2)..Len(text) :
            /\ \A k \in (i + 1)..(j - 1) : text[k] = " "
            /\ IsTokenChar(text[j])

TokenEnd(text) ==
    LET j == TokenStart(text)
    IN  CHOOSE e \in j..Len(text) :
            /\ \A k \in j..e : IsTokenChar(text[k])
            /\ (e = Len(text) \/ ~IsTokenChar(text[e + 1]))

\* String.prototype.replace(pattern, replacement) with a string pattern: the
\* first occurrence of the pattern is replaced
ReplaceFirst(text, pattern, replacement) ==
    LET at == {p \in 1..(Len(text) - Len(pattern) + 1) :
                  SubSeq(text, p, p + Len(pattern) - 1) = pattern}
    IN  IF at = {} THEN text
        ELSE LET p == CHOOSE p \in at : \A q \in at : p <= q
             IN  SubSeq(text, 1, p - 1) \o replacement
                     \o SubSeq(text, p + Len(pattern), Len(text))

\* the body of commentRanges.forEach, for one comment
processJsxImportSourceComment(T, text) ==
    IF MatchesAt(text) = {} THEN text
    ELSE LET originalSpecifier == SubSeq(text, TokenStart(text), TokenEnd(text))
             resolvedSpecifier == resolveSpecifier(T, originalSpecifier)
         IN  IF resolvedSpecifier # originalSpecifier
             THEN ReplaceFirst(text, originalSpecifier, resolvedSpecifier)
             ELSE text

\* this.processJsxImportSourceComment(sourceFile): the comment before the
\* first statement
commentPass(T, src) ==
    [i \in DOMAIN src |->
        IF i = 1 /\ src[i].kind = "Comment"
        THEN CommentOf(processJsxImportSourceComment(T, src[i].spec)) ELSE src[i]]

\* sourceFile.getImportDeclarations().forEach
importPass(T, src) ==
    [i \in DOMAIN src |->
        IF src[i].kind = "ImportDeclaration"
        THEN processImportDeclaration(T, src[i]) ELSE src[i]]

\* sourceFile.getExportDeclarations().forEach
exportPass(T, src) ==
    [i \in DOMAIN src |->
        IF src[i].kind = "ExportDeclaration"
        THEN processExportDeclaration(T, src[i]) ELSE src[i]]

\* sourceFile.getDescendantsOfKind(SyntaxKind.CallExpression).forEach
callPass(T, src) ==
    [i \in DOMAIN src |->
        IF src[i].kind = "CallExpression"
        THEN processDynamicImport(T, src[i]) ELSE src[i]]

\* sourceFile.getDescendantsOfKind(SyntaxKind.AwaitExpression).forEach
awaitPass(T, src) ==
    [i \in DOMAIN src |->
        IF src[i].kind = "CallExpression" /\ src[i].awaited
        THEN processAwaitExpression(T, src[i]) ELSE src[i]]

\* the five passes, one after the other, then getFullText()
rewriteImports(T, sourceCode) ==
    awaitPass(T, callPass(T, exportPass(T, importPass(T, commentPass(T, sourceCode)))))

(***************************************************************************)
(* Inputs of the rewriter                                                    *)
(***************************************************************************)
TableKeys == {<<"a">>, <<"a", "/">>, <<"a", "/", "a">>, <<"a", "a">>}

TableValues == {<<>>, <<"b", "/">>, <<"a", "a">>}

\* {"std/": "https://deno.land/std/"}
StdImports ==
    << [key   |-> <<"s", "t", "d", "/">>,
        value |-> <<"h", "t", "t", "p", "s", ":", "/", "/", "d", "e", "n", "o", ".",
                    "l", "a", "n", "d", "/", "s", "t", "d", "/">>] >>

\* "std/path/mod.ts"
StdSpecifier ==
    <<"s", "t", "d", "/", "p", "a", "t", "h", "/", "m", "o", "d", ".", "t", "s">>

\* "https://deno.land/std/path/mod.ts"
StdResolved ==
    <<"h", "t", "t", "p", "s", ":", "/", "/", "d", "e", "n", "o", ".", "l", "a", "n",
      "d", "/", "s", "t", "d", "/", "p", "a", "t", "h", "/", "m", "o", "d", ".", "t", "s">>

ImportTables ==
    {T \in UNION {[1..n -> [key : TableKeys, value : TableValues]] : n \in 0..MaxImports} :
        \A i, j \in DOMAIN T : T[i].key = T[j].key => i = j}
    \cup {StdImports}

\* the specifiers: the texts over "a" and "/", those of them up to three
\* characters long with a quote before or after, and the one of the scenario
Specifiers ==
    StringsOf({"a", "/"}, 0, MaxSpecLen)
    \cup {<<"'">> \o p : p \in StringsOf({"a", "/"}, 0, 3)}
    \cup {p \o <<"'">> : p \in StringsOf({"a", "/"}, 1, 3)}
    \cup {StdSpecifier}

\* the source texts of one statement that names the specifier s, alone or
\* followed by import "a"
SourcesOf(s) ==
    {<<n>> : n \in NodesOf({s})} \cup {<<n, ImportOf(<<"a">>)>> : n \in NodesOf({s})}

\* the comments that carry the directive with the specifier s, alone or after
\* an earlier occurrence of the same text
CommentsOf(s) ==
    {<<"/", "*", " ">> \o pre \o <<Directive, " ">> \o s \o <<" ", "*", "/">> :
        pre \in {<<>>, s \o <<" ">>}}

\* the source texts that begin with such a comment, alone or followed by
\* import "a"
CommentSourcesOf(s) ==
    {<<CommentOf(c)>> : c \in CommentsOf(s)}
    \cup {<<CommentOf(c), ImportOf(<<"a">>)>> : c \in CommentsOf(s)}

(***************************************************************************)
(* The rewriter as a state machine: an ImportRewriter is constructed with    *)
(* an import table, then resolveSpecifier or rewriteImports is applied.      *)
(***************************************************************************)
RwIdle == [pc |-> "idle", imports |-> <<>>, specifier |-> <<>>, resolved |-> <<>>,
           source |-> <<>>, output |-> <<>>]

RwInit ==
    rw \in [pc : {"new"}, imports : ImportTables, specifier : Specifiers,
            resolved : {<<>>}, source : {<<>>}, output : {<<>>}]

ResolveSpecifier ==
    /\ rw.pc = "new"
    /\ rw' = [rw EXCEPT !.pc = "resolved",
                        !.resolved = resolveSpecifier(rw.imports, rw.specifier)]
    /\ UNCHANGED <<commits, refs, reqs>>

RewriteImports ==
    /\ rw.pc = "new"
    /\ \E src \in SourcesOf(rw.specifier) \cup CommentSourcesOf(rw.specifier) :
          rw' = [rw EXCEPT !.pc = "rewritten",
                           !.source = src,
                           !.output = rewriteImports(rw.imports, src)]
    /\ UNCHANGED <<commits, refs, reqs>>

(***************************************************************************)
(* The object store of one app (isomorphic-git over opts.root/app)          *)
(*                                                                           *)
(* Objects are content-addressed: the universe fixes what every identifier  *)
(* denotes, and the store holds the objects written so far.  Trees and      *)
(* blobs are named <<"tree", n>> and <<"blob", n>>; commits by OidLen hex   *)
(* characters.                                                               *)
(***************************************************************************)
ShortLen == 7

AppName == "app"

Rep(c, n) == [i \in 1..n |-> c]

HEAD == <<"H", "E", "A", "D">>

HexChars == {"a", "b", "c", "d", "e", "f"}

OidStr   == Rep("a", OidLen)
OidMap   == [Rep("a", OidLen) EXCEPT ![OidLen] = "b"]
OidPlain == Rep("c", OidLen)
OidNoDot == Rep("d", OidLen)
OidEmpty == Rep("e", OidLen)
OidBare  == Rep("f", OidLen)

\* the root tree of every commit that can be written
CommitUniverse ==
    (OidStr :> "str") @@ (OidMap :> "map") @@ (OidPlain :> "plain")
    @@ (OidNoDot :> "nodot") @@ (OidEmpty :> "empty") @@ (OidBare :> "bare")

Blob(n) == <<"blob", n>>
Tree(n) == <<"tree", n>>

File(name, blob) == [path |-> name, type |-> "blob", oid |-> Blob(blob)]
Dir(name, tree)  == [path |-> name, type |-> "tree", oid |-> Tree(tree)]

\* git keeps the entries of a tree sorted by name
Trees ==
    [ str   |-> <<File("deno.json", "cfgStr"), File("logo.png", "logo"),
                  File("main.ts", "codeA"), File("mod.ts", "codeB")>>,
      map   |-> <<File("deno.json", "cfgMap"), File("deno.jsonc", "cfgStr"),
                  Dir("lib", "lib"), File("mod.ts", "codeA")>>,
      lib   |-> <<File("util.ts", "codeB")>>,
      plain |-> <<File("deno.jsonc", "cfgBad"), Dir("lib", "lib"),
                  File("main.js", "codeB"), File("mod.ts", "codeA")>>,
      nodot |-> <<File("deno.json", "cfgBad"), File("deno.jsonc", "cfgNoDot"),
                  File("main.tsx", "codeA"), File("mod.ts", "codeB")>>,
      empty |-> <<File("deno.json", "cfgEmpty"), File("main.ts", "codeA")>>,
      bare  |-> <<File("logo.png", "logo")>> ]

NoExports == [kind |-> "absent", value |-> <<>>, map |-> <<>>]
StringExports(v) == [kind |-> "string", value |-> v, map |-> <<>>]
MapExports(m) == [kind |-> "object", value |-> <<>>, map |-> m]

EmptyConfig == [exports |-> NoExports, imports |-> <<>>]

ImportsA == << [key |-> <<"a">>, value |-> <<"b", "/">>] >>

JsonBlob(cfg) == [kind |-> "json", config |-> cfg, code |-> <<>>]
CodeBlob(src) == [kind |-> "code", config |-> EmptyConfig, code |-> src]

Blobs ==
    [ cfgStr   |-> JsonBlob([exports |-> StringExports(<<".", "main.ts">>),
                             imports |-> ImportsA]),
      cfgMap   |-> JsonBlob([exports |-> MapExports(
                                 (<<".">> :> <<".", "lib", "util.ts">>)
                                 @@ (<<".", "mod.ts">> :> <<".", "lib", "util.ts">>)),
                             imports |-> ImportsA]),
      cfgNoDot |-> JsonBlob([exports |-> MapExports(
                                 (<<".", "lib", "util.ts">> :> <<".", "mod.ts">>)
                                 @@ (<<".", "mod.ts">> :> <<".", "mod.ts">>)),
                             imports |-> <<>>]),
      cfgEmpty |-> JsonBlob([exports |-> StringExports(<<>>), imports |-> ImportsA]),
      cfgBad   |-> [kind |-> "malformed", config |-> EmptyConfig, code |-> <<>>],
      codeA    |-> CodeBlob(<<ImportOf(<<"a">>)>>),
      codeB    |-> CodeBlob(<<ImportOf(<<"a", "/", "a">>), ImportOf(<<"b">>)>>),
      logo     |-> [kind |-> "binary", config |-> EmptyConfig, code |-> <<>>] ]

\* git.resolveRef: a full-length hex string is returned as it is; any other
\* text is looked up among the refs
IsFullOid(ref) == Len(ref) = OidLen /\ \A i \in DOMAIN ref : ref[i] \in HexChars

Failed == [ok |-> FALSE, oid |-> <<>>]
Found(oid) == [ok |-> TRUE, oid |-> oid]

resolveRef(R, ref) ==
    IF IsFullOid(ref) THEN Found(ref)
    ELSE IF ref \in DOMAIN R THEN Found(R[ref])
    ELSE Failed

\* git.expandOid: the one object whose identifier starts with the prefix;
\* none or several is an error
expandOid(C, prefix) ==
    LET matches == {o \in DOMAIN C : StartsWith(o, prefix)}
    IN  IF Cardinality(matches) = 1 THEN Found(CHOOSE o \in matches : TRUE)
        ELSE Failed

\* git.readTree: a commit identifier is peeled to its root tree
readTree(C, oid) ==
    IF oid \in DOMAIN C THEN [ok |-> TRUE, tree |-> Trees[C[oid]]]
    ELSE IF Len(oid) = 2 /\ oid[1] = "tree" THEN [ok |-> TRUE, tree |-> Trees[oid[2]]]
    ELSE [ok |-> FALSE, tree |-> <<>>]

NoEntry == [found |-> FALSE, node |-> File("", "")]

\* the walk that stops at the first component: the entry of that name is
\* returned whatever follows it in the path
findFirstComponent(C, oid, filepathParts) ==
    LET read == readTree(C, oid)
        at   == {i \in DOMAIN read.tree : read.tree[i].path = Head(filepathParts)}
    IN  IF ~read.ok \/ at = {} THEN NoEntry
        ELSE [found |-> TRUE, node |-> read.tree[CHOOSE i \in at : TRUE]]

RECURSIVE findEntryInTree(_, _, _)
findEntryInTree(C, oid, filepathParts) ==
    LET read    == readTree(C, oid)
        tree    == read.tree
        current == Head(filepathParts)
        rest    == Tail(filepathParts)
        \* the nodes at which the loop returns
        stops   == {i \in DOMAIN tree :
                       /\ tree[i].path = current
                       /\ (rest = <<>> \/ tree[i].type = "tree")}
    IN  IF ~read.ok \/ stops = {} THEN NoEntry
        ELSE LET node == tree[CHOOSE i \in stops : \A j \in stops : i <= j]
             IN  IF rest = <<>> THEN [found |-> TRUE, node |-> node]
                 ELSE findEntryInTree(C, node.oid, rest)

\* the number of git.readTree calls of findEntryInTree
RECURSIVE treeReads(_, _, _)
treeReads(C, oid, filepathParts) ==
    LET read    == readTree(C, oid)
        tree    == read.tree
        current == Head(filepathParts)
        rest    == Tail(filepathParts)
        stops   == {i \in DOMAIN tree :
                       /\ tree[i].path = current
                       /\ (rest = <<>> \/ tree[i].type = "tree")}
    IN  IF ~read.ok \/ stops = {} \/ rest = <<>> THEN 1
        ELSE 1 + treeReads(C, tree[CHOOSE i \in stops : \A j \in stops : i <= j].oid, rest)

NoBlob(msg) == [ok |-> FALSE, blob |-> Blobs.cfgBad, message |-> msg]

getFileContentAtCommit(C, oid, filepath) ==
    IF oid \notin DOMAIN C THEN NoBlob("Failed to read commit")
    ELSE LET tree  == Tree(C[oid])
             entry == findEntryInTree(C, tree, filepath)
         IN  IF ~entry.found THEN NoBlob("File not found in tree")
             ELSE IF entry.node.type # "blob" THEN NoBlob("Object is not a blob")
             ELSE [ok |-> TRUE, blob |-> Blobs[entry.node.oid[2]], message |-> ""]

ManifestNames == <<"deno.json", "deno.jsonc">>

RECURSIVE getConfigFrom(_, _, _)
getConfigFrom(C, oid, i) ==
    IF i > Len(ManifestNames) THEN EmptyConfig
    ELSE LET got == getFileContentAtCommit(C, oid, <<ManifestNames[i]>>)
         IN  IF got.ok /\ got.blob.kind = "json" THEN got.blob.config
             ELSE getConfigFrom(C, oid, i + 1)

\* the candidates tried the other way round: deno.jsonc first
getConfigJsoncFirst(C, oid) ==
    LET jsonc == getFileContentAtCommit(C, oid, <<"deno.jsonc">>)
        json  == getFileContentAtCommit(C, oid, <<"deno.json">>)
    IN  IF jsonc.ok /\ jsonc.blob.kind = "json" THEN jsonc.blob.config
        ELSE IF json.ok /\ json.blob.kind = "json" THEN json.blob.config
        ELSE EmptyConfig

getConfig(C, oid) == getConfigFrom(C, oid, 1)

(***************************************************************************)
(* createServer (mod.ts): the two GET handlers and app.onError              *)
(***************************************************************************)
ReqIds == {1, 2}

\* path.extname of the last path segment
ExtName(name) ==
    CASE name \in {"mod.ts", "main.ts", "util.ts"} -> ".ts"
      [] name \in {"mod.js", "main.js"} -> ".js"
      [] name \in {"mod.jsx", "main.jsx"} -> ".jsx"
      [] name \in {"mod.tsx", "main.tsx"} -> ".tsx"
      [] name = "logo.png" -> ".png"
      [] OTHER -> ""

SourceExtensions == {".js", ".ts", ".jsx", ".tsx"}

entrypoints ==
    <<"mod.js", "mod.ts", "mod.jsx", "mod.tsx", "main.js", "main.ts", "main.jsx", "main.tsx">>

\* path.normalize on the segments of a joined path: "" and "." are dropped,
\* ".." removes the segment before it (and stays when there is none)
RECURSIVE NormalizeInto(_, _)
NormalizeInto(done, segs) ==
    IF segs = <<>> THEN done
    ELSE LET seg == Head(segs)
         IN  IF seg \in {"", "."} THEN NormalizeInto(done, Tail(segs))
             ELSE IF seg = ".." /\ done # <<>> /\ done[Len(done)] # ".."
                  THEN NormalizeInto(SubSeq(done, 1, Len(done) - 1), Tail(segs))
             ELSE NormalizeInto(Append(done, seg), Tail(segs))

\* the URL path /{app}@{ref}/{path}
Url(app, ref, path) == [app |-> app, ref |-> ref, path |-> path]

\* path.join("/", `${app}@${oid.slice(0, 7)}`, target)
JoinUrl(app, oid, target) == Url(app, SliceTo(oid, ShortLen), NormalizeInto(<<>>, target))

\* the redirect without the slice: `/${app}@${oid}/${params.filepath}`
FullOidUrl(app, oid, filepath) == Url(app, oid, filepath)

\* `/${app}@${oid.slice(0, 7)}/${params.filepath}`
CanonicalUrl(app, oid, filepath) == Url(app, SliceTo(oid, ShortLen), filepath)

NoUrl == Url("", <<>>, <<>>)
NoMessage == [text |-> "", app |-> "", ref |-> <<>>]

NoResponse ==
    [status |-> 0, kind |-> "none", location |-> NoUrl, text |-> <<>>, blob |-> "",
     message |-> NoMessage, bodyStatus |-> 0]

\* c.redirect(location)
Redirect(location) == [NoResponse EXCEPT !.status = 302, !.kind = "redirect",
                                         !.location = location]

\* c.text(code)
TextResponse(code) == [NoResponse EXCEPT !.status = 200, !.kind = "text", !.text = code]

\* c.body(blob, ...)
BodyResponse(blob) == [NoResponse EXCEPT !.status = 200, !.kind = "body", !.blob = blob]

\* a thrown error: its message and, for an HTTPException, its status
Error(text, app, ref, httpStatus) ==
    [message |-> [text |-> text, app |-> app, ref |-> ref], httpStatus |-> httpStatus]

\* app.onError: every error is answered with 500, whatever was thrown
onError(err) ==
    [NoResponse EXCEPT !.status = 500, !.kind = "json", !.message = err.message,
                       !.bodyStatus = 500]

\* truthiness of config.exports
ExportsTruthy(exports) ==
    \/ exports.kind = "object"
    \/ exports.kind = "string" /\ exports.value # <<>>

\* GET /:app, after getConfig: the root target named by the manifest
HasRootExport(config) ==
    /\ ExportsTruthy(config.exports)
    /\ \/ config.exports.kind = "string"
       \/ <<".">> \in DOMAIN config.exports.map

RootExport(config) ==
    IF config.exports.kind = "string" THEN config.exports.value
    ELSE config.exports.map[<<".">>]

\* the first entrypoint, in the order of the list, that findEntryInTree finds
FoundEntrypoints(C, oid) ==
    {i \in DOMAIN entrypoints : findEntryInTree(C, oid, <<entrypoints[i]>>).found}

\* the loop run the other way: the last entrypoint of the list that is found
LastEntrypoint(C, oid) ==
    entrypoints[CHOOSE i \in FoundEntrypoints(C, oid) :
                    \A j \in FoundEntrypoints(C, oid) : i >= j]

FirstEntrypoint(C, oid) ==
    entrypoints[CHOOSE i \in FoundEntrypoints(C, oid) :
                    \A j \in FoundEntrypoints(C, oid) : i <= j]

\* the key without its "./": key = params.filepath
BareExportKey(filepath) == filepath

\* GET /:app/:filepath, after getConfig: key = `./${params.filepath}`
ExportKey(filepath) == <<".">> \o filepath

HasSubpathExport(config, filepath) ==
    /\ ExportsTruthy(config.exports)
    /\ config.exports.kind = "object"
    /\ ExportKey(filepath) \in DOMAIN config.exports.map

\* the ref resolved again at each use, instead of the oid kept from the start
RevisionOfRefNow(req) ==
    IF resolveRef(refs, req.ref).ok THEN resolveRef(refs, req.ref).oid
    ELSE IF expandOid(commits, req.ref).ok THEN expandOid(commits, req.ref).oid
    ELSE req.oid

\* the revision the handlers hand to getConfig, findEntryInTree and
\* getFileContentAtCommit: the oid resolved at the start of the request
RevisionOf(req) == req.oid

\* the answer to a file whose bytes were fetched
Serve(config, blob, blobName, filepath) ==
    IF ExtName(filepath[Len(filepath)]) \in SourceExtensions
    THEN TextResponse(rewriteImports(config.imports, blob.code))
    ELSE BodyResponse(blobName)

IdleReq ==
    [pc |-> "idle", app |-> "", ref |-> <<>>, filepath |-> <<>>, oid |-> <<>>,
     config |-> EmptyConfig, resolved |-> 0, reads |-> {}, response |-> NoResponse,
     trail |-> <<>>]

\* the {app}[@ref] segment of the URL: no ref, a ref that names nothing, or
\* the first n characters of a commit of the store
Dev == <<"d", "e", "v">>

Segments(C, lengths, others) ==
    [at : {FALSE}, ref : {<<>>}]
    \cup [at : {TRUE},
          ref : others \cup {SliceTo(o, n) : o \in DOMAIN C, n \in lengths}]

FilePaths ==
    {<<"mod.ts">>, <<"lib", "util.ts">>, <<"lib">>, <<"logo.png">>,
     <<"Mod.ts">>, <<"mod.ts", "util.ts">>}

\* a request arrives: GET /{app}[@ref] when filepath is empty, else
\* GET /{app}[@ref]/{filepath}; the handler splits the first segment at "@".
\* Requests are numbered in the order they arrive.
Request(r, seg, filepath) ==
    /\ reqs[r].pc \in {"idle", "done"}
    /\ \A q \in ReqIds : q < r => reqs[q].pc # "idle"
    /\ reqs' = [reqs EXCEPT ![r] =
                   [IdleReq EXCEPT !.pc = "resolveRef",
                                   !.app = AppName,
                                   !.ref = IF seg.at THEN seg.ref ELSE HEAD,
                                   !.filepath = filepath]]
    /\ UNCHANGED <<commits, refs, rw>>

\* the client follows the redirect it was answered with: it requests the URL
\* of the Location header; trail holds the URLs it has requested before
Follow(r) ==
    /\ reqs[r].pc = "done"
    /\ reqs[r].response.kind = "redirect"
    /\ Len(reqs[r].trail) < MaxHops
    /\ reqs' = [reqs EXCEPT ![r] =
                   [IdleReq EXCEPT !.pc = "resolveRef",
                                   !.app = reqs[r].response.location.app,
                                   !.ref = reqs[r].response.location.ref,
                                   !.filepath = reqs[r].response.location.path,
                                   !.trail = Append(reqs[r].trail,
                                                    [ref |-> reqs[r].ref,
                                                     filepath |-> reqs[r].filepath])]]
    /\ UNCHANGED <<commits, refs, rw>>

\* the synchronous code between the resolution of oid and getConfig
AfterResolve(req, oid) ==
    IF req.filepath # <<>> /\ ~StartsWith(oid, req.ref)
    THEN [req EXCEPT !.pc = "done", !.oid = oid, !.resolved = @ + 1,
                     !.response = Redirect(CanonicalUrl(req.app, oid, req.filepath))]
    ELSE [req EXCEPT !.pc = "getConfig", !.oid = oid, !.resolved = @ + 1]

\* oid = await git.resolveRef({ fs, dir, ref })
ResolveRef(r) ==
    /\ reqs[r].pc = "resolveRef"
    /\ LET req == reqs[r]
           res == resolveRef(refs, req.ref)
       IN  reqs' = [reqs EXCEPT ![r] =
                       IF res.ok THEN AfterResolve(req, res.oid)
                       ELSE [req EXCEPT !.pc = "expandOid"]]
    /\ UNCHANGED <<commits, refs, rw>>

\* catch (_e) { oid = await git.expandOid({ fs, dir, oid: ref }) }
ExpandOid(r) ==
    /\ reqs[r].pc = "expandOid"
    /\ LET req == reqs[r]
           res == expandOid(commits, req.ref)
       IN  reqs' = [reqs EXCEPT ![r] =
                       IF res.ok THEN AfterResolve(req, res.oid)
                       ELSE [req EXCEPT !.pc = "done",
                                        !.response = onError(Error("Could not expand oid",
                                                                   "", req.ref, 0))]]
    /\ UNCHANGED <<commits, refs, rw>>

\* config = await getConfig({ dir, oid }) and the exports tests that follow it
GetConfig(r) ==
    /\ reqs[r].pc = "getConfig"
    /\ LET req    == reqs[r]
           rev    == RevisionOf(req)
           config == getConfig(commits, rev)
           read   == [what |-> "manifest", oid |-> rev]
       IN  reqs' = [reqs EXCEPT ![r] =
              IF req.filepath = <<>>
              THEN IF HasRootExport(config)
                   THEN [@ EXCEPT !.pc = "done", !.config = config,
                                  !.reads = @ \cup {read},
                                  !.response = Redirect(JoinUrl(req.app, req.oid,
                                                                RootExport(config)))]
                   ELSE [@ EXCEPT !.pc = "entrypoints", !.config = config,
                                  !.reads = @ \cup {read}]
              ELSE IF HasSubpathExport(config, req.filepath)
                   THEN [@ EXCEPT !.pc = "done", !.config = config,
                                  !.reads = @ \cup {read},
                                  !.response = Redirect(JoinUrl(req.app, req.oid,
                                      config.exports.map[ExportKey(req.filepath)]))]
                   ELSE [@ EXCEPT !.pc = "getFile", !.config = config,
                                  !.reads = @ \cup {read}]]
    /\ UNCHANGED <<commits, refs, rw>>

\* GET /:app: the loop over the entrypoints, and the HTTPException after it
Entrypoints(r) ==
    /\ reqs[r].pc = "entrypoints"
    /\ LET req  == reqs[r]
           rev  == RevisionOf(req)
           read == [what |-> "tree", oid |-> rev]
       IN  reqs' = [reqs EXCEPT ![r] =
              IF FoundEntrypoints(commits, rev) # {}
              THEN [@ EXCEPT !.pc = "done", !.reads = @ \cup {read},
                             !.response = Redirect(JoinUrl(req.app, req.oid,
                                                   <<FirstEntrypoint(commits, rev)>>))]
              ELSE [@ EXCEPT !.pc = "done", !.reads = @ \cup {read},
                             !.response = onError(Error("No default export found",
                                                        req.app, req.ref, 404))]]
    /\ UNCHANGED <<commits, refs, rw>>

\* GET /:app/:filepath: getFileContentAtCommit, then the rewritten text or
\* the raw bytes
GetFile(r) ==
    /\ reqs[r].pc = "getFile"
    /\ LET req  == reqs[r]
           rev  == RevisionOf(req)
           got  == getFileContentAtCommit(commits, rev, req.filepath)
           name == findEntryInTree(commits, rev, req.filepath).node.oid[2]
           read == [what |-> "file", oid |-> rev]
       IN  reqs' = [reqs EXCEPT ![r] =
              IF got.ok
              THEN [@ EXCEPT !.pc = "done", !.reads = @ \cup {read},
                             !.response = Serve(req.config, got.blob, name, req.filepath)]
              ELSE [@ EXCEPT !.pc = "done", !.reads = @ \cup {read},
                             !.response = onError(Error(got.message, "", <<>>, 0))]]
    /\ UNCHANGED <<commits, refs, rw>>

(***************************************************************************)
(* The repository changes under the server: git commit moves HEAD to a new  *)
(* commit, git branch names an existing one.                                 *)
(***************************************************************************)
BranchNames == {Rep("a", ShortLen)}

Commit(oid) ==
    /\ Cardinality(DOMAIN commits) < MaxCommits
    /\ oid \notin DOMAIN commits
    /\ commits' = commits @@ (oid :> CommitUniverse[oid])
    /\ refs' = [refs EXCEPT ![HEAD] = oid]
    /\ UNCHANGED <<reqs, rw>>

CreateBranch(name, oid) ==
    /\ name \notin DOMAIN refs
    /\ oid \in DOMAIN commits
    /\ refs' = refs @@ (name :> oid)
    /\ UNCHANGED <<commits, reqs, rw>>

InitRepo(universe) ==
    /\ \E oid \in universe :
          /\ commits = (oid :> CommitUniverse[oid])
          /\ refs = (HEAD :> oid)
    /\ reqs = [r \in ReqIds |-> IdleReq]

Handle(r) ==
    \/ ResolveRef(r)
    \/ ExpandOid(r)
    \/ GetConfig(r)
    \/ Entrypoints(r)
    \/ GetFile(r)

(***************************************************************************)
(* Spec: requests one after the other, against every repository history.    *)
(***************************************************************************)
Init == InitRepo(DOMAIN CommitUniverse) /\ rw = RwIdle

Next ==
    \/ \E seg \in Segments(commits, {ShortLen - 1, ShortLen, OidLen}, {Dev}),
          filepath \in {<<>>} \cup FilePaths :
          Request(1, seg, filepath)
    \/ Handle(1)
    \/ \E oid \in DOMAIN CommitUniverse : Commit(oid)
    \/ \E name \in BranchNames, oid \in DOMAIN commits : CreateBranch(name, oid)

Spec == Init /\ [][Next]_vars

(***************************************************************************)
(* SpecConc: two requests in flight at once, against the histories of three *)
(* commits, two of which share their first ShortLen characters.             *)
(***************************************************************************)
ConcUniverse == {OidStr, OidMap, OidNoDot}

InitConc == InitRepo(ConcUniverse) /\ rw = RwIdle

NextConc ==
    \/ \E r \in ReqIds, seg \in Segments(commits, {ShortLen, OidLen}, {}),
          filepath \in {<<>>, <<"mod.ts">>} :
          Request(r, seg, filepath)
    \/ \E r \in ReqIds : Handle(r)
    \/ \E oid \in ConcUniverse : Commit(oid)
    \/ \E name \in BranchNames, oid \in DOMAIN commits : CreateBranch(name, oid)

SpecConc == InitConc /\ [][NextConc]_vars

(***************************************************************************)
(* SpecFollow: one client that follows redirects, against a repository that *)
(* does not change.                                                          *)
(***************************************************************************)
InitFollow == InitRepo(DOMAIN CommitUniverse) /\ rw = RwIdle

NextFollow ==
    \/ \E seg \in Segments(commits, {ShortLen, OidLen}, {}),
          filepath \in {<<>>} \cup FilePaths : Request(1, seg, filepath)
    \/ Handle(1)
    \/ Follow(1)

SpecFollow == InitFollow /\ [][NextFollow]_vars

(***************************************************************************)
(* SpecRW: the rewriter alone, on every import table and specifier of the   *)
(* bounds.                                                                   *)
(***************************************************************************)
InitRW == InitRepo({OidStr}) /\ RwInit

NextRW == ResolveSpecifier \/ RewriteImports

SpecRW == InitRW /\ [][NextRW]_vars

(***************************************************************************)
(* Claims about the handlers                                                 *)
(***************************************************************************)
Done(q) == q.pc = "done"

IsRoot(q) == q.filepath = <<>>

InFlight(q) == q.pc \notin {"idle", "done"}

\* the answer that the revision q.oid alone determines for the request q
AnswerOf(C, q) ==
    LET cfg == getConfig(C, q.oid)
        got == getFileContentAtCommit(C, q.oid, q.filepath)
    IN  IF IsRoot(q)
        THEN IF HasRootExport(cfg)
             THEN Redirect(JoinUrl(q.app, q.oid, RootExport(cfg)))
             ELSE IF FoundEntrypoints(C, q.oid) # {}
             THEN Redirect(JoinUrl(q.app, q.oid, <<FirstEntrypoint(C, q.oid)>>))
             ELSE onError(Error("No default export found", q.app, q.ref, 404))
        ELSE IF ~StartsWith(q.oid, q.ref)
             THEN Redirect(CanonicalUrl(q.app, q.oid, q.filepath))
             ELSE IF HasSubpathExport(cfg, q.filepath)
             THEN Redirect(JoinUrl(q.app, q.oid, cfg.exports.map[ExportKey(q.filepath)]))
             ELSE IF got.ok
             THEN Serve(cfg, got.blob,
                        findEntryInTree(C, q.oid, q.filepath).node.oid[2], q.filepath)
             ELSE onError(Error(got.message, "", <<>>, 0))

\* C1: every request resolves its ref to one revision once, every read of the
\* request (manifest, tree, file) is a read of that revision, and the answer
\* is the one that revision alone determines, whatever commits and branches
\* are made between the steps and whatever the other request does.
C1_OneRevisionPerRequest ==
    \A r \in ReqIds :
        LET q == reqs[r]
        IN  /\ q.resolved <= 1
            /\ \A x \in q.reads : q.resolved = 1 /\ x.oid = q.oid
            /\ (\E x \in q.reads : x.what = "manifest")
                  => q.config = getConfig(commits, q.oid)
            /\ (Done(q) /\ q.resolved = 1) => q.response = AnswerOf(commits, q)

\* a request for the root export at HEAD is answered from the revision it
\* resolved although HEAD has moved since, while the other request is under way
C1_Witness ==
    \E r, o \in ReqIds :
        /\ Done(reqs[r]) /\ IsRoot(reqs[r]) /\ reqs[r].ref = HEAD
        /\ reqs[r].response.status = 302
        /\ reqs[r].oid # refs[HEAD]
        /\ \E x \in reqs[r].reads : x.what = "manifest"
        /\ o # r /\ InFlight(reqs[o])

\* a canonical URL: /{app}@{ShortLen hex characters}/{filepath}
IsCanonical(q) ==
    /\ ~IsRoot(q)
    /\ Len(q.ref) = ShortLen
    /\ \A i \in DOMAIN q.ref : q.ref[i] \in HexChars

\* the answer to the request q were it made and served now
AnswerNow(R, C, q) ==
    IF resolveRef(R, q.ref).ok
    THEN AnswerOf(C, [q EXCEPT !.oid = resolveRef(R, q.ref).oid])
    ELSE IF expandOid(C, q.ref).ok
    THEN AnswerOf(C, [q EXCEPT !.oid = expandOid(C, q.ref).oid])
    ELSE onError(Error("Could not expand oid", "", q.ref, 0))

\* C2: once a canonical URL has been answered with content, a request for the
\* same URL is answered with the same content at every later time.
C2_CanonicalUrlStable ==
    \A r \in ReqIds :
        (Done(reqs[r]) /\ IsCanonical(reqs[r]) /\ reqs[r].response.status = 200)
            => AnswerNow(refs, commits, reqs[r]) = reqs[r].response

C3_Entrypoints ==
    <<"mod.js", "mod.ts", "mod.jsx", "mod.tsx", "main.js", "main.ts", "main.jsx", "main.tsx">>

\* the first entrypoint of the list that is an entry of the root tree of oid
C3_FirstAtRoot(C, oid) ==
    LET at == {i \in DOMAIN C3_Entrypoints :
                  \E j \in DOMAIN Trees[C[oid]] : Trees[C[oid]][j].path = C3_Entrypoints[i]}
    IN  IF at = {} THEN <<>>
        ELSE <<C3_Entrypoints[CHOOSE i \in at : \A j \in at : i <= j]>>

C3_NoDefaultExport(q) ==
    /\ q.response.kind = "json"
    /\ q.response.message = [text |-> "No default export found", app |-> q.app, ref |-> q.ref]

\* the answer to a root request q whose ref resolved, exportsNames telling
\* whether the exports of the manifest is a string that names the target
C3_Answer(q, exportsNames) ==
    LET cfg == getConfig(commits, q.oid)
    IN  IF exportsNames
        THEN q.response = Redirect(JoinUrl(q.app, q.oid, cfg.exports.value))
        ELSE IF cfg.exports.kind = "object" /\ <<".">> \in DOMAIN cfg.exports.map
        THEN q.response = Redirect(JoinUrl(q.app, q.oid, cfg.exports.map[<<".">>]))
        ELSE IF C3_FirstAtRoot(commits, q.oid) # <<>>
        THEN q.response = Redirect(JoinUrl(q.app, q.oid, C3_FirstAtRoot(commits, q.oid)))
        ELSE C3_NoDefaultExport(q)

\* C3 as stated: GET /{app}[@ref] never answers 200; when the ref resolves it
\* answers 302 to /{app}@{7 characters}/{target}, the target being exports when
\* it is a string, else exports["."], else the first entrypoint at the root of
\* the tree, and fails with NoDefaultExport when there is none.
C3_RootRedirect ==
    \A r \in ReqIds :
        LET q == reqs[r]
            e == getConfig(commits, q.oid).exports
        IN  (Done(q) /\ IsRoot(q)) =>
                /\ q.response.status # 200
                /\ q.resolved = 1 => C3_Answer(q, e.kind = "string")

\* C3 as amended: the same, with exports naming the target when it is a
\* string that is not empty; an empty string is treated as no exports.
C3_RootRedirectNonEmpty ==
    \A r \in ReqIds :
        LET q == reqs[r]
            e == getConfig(commits, q.oid).exports
        IN  (Done(q) /\ IsRoot(q)) =>
                /\ q.response.status # 200
                /\ q.resolved = 1 => C3_Answer(q, e.kind = "string" /\ e.value # <<>>)

\* a root request at HEAD answered with the redirect to mod.ts, the second
\* entrypoint of the list, in a tree that lists main.js before it
C3_Witness ==
    \E r \in ReqIds :
        /\ Done(reqs[r]) /\ IsRoot(reqs[r]) /\ reqs[r].oid = OidPlain
        /\ reqs[r].response = Redirect(Url(AppName, Rep("c", ShortLen), <<"mod.ts">>))

\* C4 as stated: on GET /{app}@{ref}/{filepath}, an oid that does not begin
\* with the ref text is answered with the 302 to /{app}@{7 characters}/{filepath},
\* so that content is served only under the 7-character form of the revision.
C4_AlwaysCanonical ==
    \A r \in ReqIds :
        LET q == reqs[r]
        IN  (Done(q) /\ ~IsRoot(q) /\ q.resolved = 1) =>
                /\ ~StartsWith(q.oid, q.ref)
                      => q.response = Redirect(Url(q.app, SliceTo(q.oid, ShortLen), q.filepath))
                /\ q.response.status = 200 => q.ref = SliceTo(q.oid, ShortLen)

\* C4 as amended: an oid that does not begin with the ref text is answered
\* with that 302; content is served under every ref that is a prefix of the
\* oid, of whatever length.
C4_CanonicalUnlessPrefix ==
    \A r \in ReqIds :
        LET q == reqs[r]
        IN  (Done(q) /\ ~IsRoot(q) /\ q.resolved = 1) =>
                /\ ~StartsWith(q.oid, q.ref)
                      => q.response = Redirect(Url(q.app, SliceTo(q.oid, ShortLen), q.filepath))
                /\ q.response.status = 200 => StartsWith(q.oid, q.ref)

\* GET /app/mod.ts is redirected from HEAD to the 7-character form
C4_Witness ==
    \E r \in ReqIds :
        /\ Done(reqs[r]) /\ reqs[r].ref = HEAD /\ reqs[r].filepath = <<"mod.ts">>
        /\ reqs[r].response = Redirect(Url(AppName, SliceTo(reqs[r].oid, ShortLen), <<"mod.ts">>))
        /\ Len(reqs[r].response.location.ref) = ShortLen

\* C5: a ref that does not resolve, an entry that is not in the tree and a
\* missing default export are answered with 404 and a JSON body whose message
\* names the app and the ref (the model has no other failure).
C5_NotFoundIs404 ==
    \A r \in ReqIds :
        LET q == reqs[r]
        IN  (Done(q) /\ q.response.kind = "json") =>
                /\ q.response.status = 404
                /\ q.response.bodyStatus = 404
                /\ q.response.message.app = q.app
                /\ q.response.message.ref = q.ref

\* C6: on GET /{app}@{ref}/{filepath} with an oid that begins with the ref, a
\* mapping exports with the key "./" + filepath is answered with the 302 to
\* the mapped path under the 7 characters of the same revision; otherwise the
\* filepath is looked up in the tree of the revision, and the answer is the
\* file when it is there and an error when it is not.
C6_SubpathExport ==
    \A r \in ReqIds :
        LET q   == reqs[r]
            cfg == getConfig(commits, q.oid)
            key == <<".">> \o q.filepath
            got == getFileContentAtCommit(commits, q.oid, q.filepath)
        IN  (Done(q) /\ ~IsRoot(q) /\ q.resolved = 1 /\ StartsWith(q.oid, q.ref)) =>
                IF cfg.exports.kind = "object" /\ key \in DOMAIN cfg.exports.map
                THEN q.response = Redirect(Url(q.app, SliceTo(q.oid, ShortLen),
                                               NormalizeInto(<<>>, cfg.exports.map[key])))
                ELSE IF got.ok
                THEN /\ q.response.status = 200
                     /\ q.response.kind = "text" => q.response.text =
                            rewriteImports(cfg.imports, got.blob.code)
                ELSE q.response.kind = "json" /\ q.response.message.text = got.message

\* GET /app@aaaaaaab/mod.ts is redirected to lib/util.ts by the exports of
\* that revision
C6_Witness ==
    \E r \in ReqIds :
        /\ Done(reqs[r]) /\ reqs[r].oid = OidMap /\ reqs[r].ref = OidMap
        /\ reqs[r].filepath = <<"mod.ts">>
        /\ reqs[r].response = Redirect(Url(AppName, Rep("a", ShortLen), <<"lib", "util.ts">>))

\* the manifest that the file `name` at the root of revision oid parses to,
\* or none when the file is missing, is not a file or does not parse
C14_Candidate(C, oid, name) ==
    LET at == IF oid \in DOMAIN C
              THEN {i \in DOMAIN Trees[C[oid]] :
                       /\ Trees[C[oid]][i].path = name
                       /\ Trees[C[oid]][i].type = "blob"
                       /\ Blobs[Trees[C[oid]][i].oid[2]].kind = "json"}
              ELSE {}
    IN  IF at = {} THEN [ok |-> FALSE, config |-> EmptyConfig]
        ELSE [ok |-> TRUE,
              config |-> Blobs[Trees[C[oid]][CHOOSE i \in at : TRUE].oid[2]].config]

C14_AllFail(C, oid) ==
    ~C14_Candidate(C, oid, "deno.json").ok /\ ~C14_Candidate(C, oid, "deno.jsonc").ok

\* the answer to q when the revision has no manifest at all
C14_AnswerWithoutManifest(C, q) ==
    LET got == getFileContentAtCommit(C, q.oid, q.filepath)
    IN  IF IsRoot(q)
        THEN IF C3_FirstAtRoot(C, q.oid) # <<>>
             THEN q.response = Redirect(JoinUrl(q.app, q.oid, C3_FirstAtRoot(C, q.oid)))
             ELSE C3_NoDefaultExport(q)
        ELSE IF got.ok
             THEN q.response.status = 200
             ELSE q.response.kind = "json" /\ q.response.message.text = got.message

\* C14: the manifest a request works with is the parse of deno.json when that
\* file exists at the revision and parses, else the parse of deno.jsonc when
\* that one exists and parses, else the empty manifest; and a request at a
\* revision where both candidates fail is answered as a request at a revision
\* without manifest is, never with an error about the manifest.
C14_ManifestFallback ==
    \A r \in ReqIds :
        LET q     == reqs[r]
            json  == C14_Candidate(commits, q.oid, "deno.json")
            jsonc == C14_Candidate(commits, q.oid, "deno.jsonc")
        IN  (\E x \in q.reads : x.what = "manifest") =>
                /\ q.config = IF json.ok THEN json.config
                              ELSE IF jsonc.ok THEN jsonc.config
                              ELSE EmptyConfig
                /\ (Done(q) /\ C14_AllFail(commits, q.oid))
                      => C14_AnswerWithoutManifest(commits, q)

\* a request at the revision whose deno.json is malformed has gone on with
\* the manifest of its deno.jsonc
C14_Witness ==
    \E r \in ReqIds :
        /\ Done(reqs[r]) /\ reqs[r].oid = OidNoDot
        /\ \E x \in reqs[r].reads : x.what = "manifest"
        /\ reqs[r].config = Blobs.cfgNoDot.config
        /\ Blobs[Trees.nodot[1].oid[2]].kind = "malformed"

C15_TreeNames == {"str", "map", "lib", "plain", "nodot", "empty", "bare"}

\* every component of the path names an entry at its level, and every
\* component but the last names a subtree: t[k] is the tree at level k
C15_Exists(root, parts) ==
    \E t \in [1..Len(parts) -> C15_TreeNames] :
        /\ t[1] = root
        /\ \A k \in 1..Len(parts) :
              \E i \in DOMAIN Trees[t[k]] :
                  /\ Trees[t[k]][i].path = parts[k]
                  /\ k < Len(parts) =>
                        /\ Trees[t[k]][i].type = "tree"
                        /\ Trees[t[k]][i].oid = <<"tree", t[k + 1]>>

\* C15: the walk for the path of a request returns an entry exactly when
\* every component names an entry at its level and every component but the
\* last names a subtree; the entry is the one the last component names;
\* otherwise the request fails with 'File not found in tree'; and the walk
\* reads at most as many trees as the path has components.  The same holds of
\* the walks for the entrypoints of a root request.
C15_TreeWalk ==
    \A r \in ReqIds :
        LET q    == reqs[r]
            root == commits[q.oid]
            e    == findEntryInTree(commits, <<"tree", root>>, q.filepath)
        IN  /\ ((\E x \in q.reads : x.what = "file") /\ q.oid \in DOMAIN commits) =>
                  /\ e.found <=> C15_Exists(root, q.filepath)
                  /\ e.found => e.node.path = q.filepath[Len(q.filepath)]
                  /\ ~e.found => /\ q.response.kind = "json"
                                 /\ q.response.message.text = "File not found in tree"
                  /\ treeReads(commits, <<"tree", root>>, q.filepath) <= Len(q.filepath)
            /\ ((\E x \in q.reads : x.what = "tree") /\ q.oid \in DOMAIN commits) =>
                  \A i \in DOMAIN entrypoints :
                      /\ findEntryInTree(commits, q.oid, <<entrypoints[i]>>).found
                            <=> C15_Exists(root, <<entrypoints[i]>>)
                      /\ treeReads(commits, q.oid, <<entrypoints[i]>>) <= 1

\* lib/util.ts has been found through the subtree lib and served, with two
\* tree reads
C15_Witness ==
    \E r \in ReqIds :
        /\ Done(reqs[r]) /\ reqs[r].filepath = <<"lib", "util.ts">>
        /\ reqs[r].response.status = 200
        /\ \E x \in reqs[r].reads : x.what = "file"
        /\ treeReads(commits, <<"tree", commits[reqs[r].oid]>>, reqs[r].filepath) = 2

\* C16: a client that follows the redirects of the registry against a
\* repository that does not change never requests the same URL twice: the
\* redirects form no cycle.
C16_NoRedirectCycle ==
    \A r \in ReqIds :
        \A k \in DOMAIN reqs[r].trail :
            reqs[r].trail[k] # [ref |-> reqs[r].ref, filepath |-> reqs[r].filepath]

(***************************************************************************)
(* Claims about resolveSpecifier and rewriteImports, under SpecRW           *)
(***************************************************************************)
HasQuote(s) == s # <<>> /\ (s[1] \in QuoteChars \/ s[Len(s)] \in QuoteChars)

\* entry i of the table is a key k such that the specifier is k + "/" + r
\* with r not empty and not starting with "/"
IsSubpathOf(T, i, s) ==
    /\ StartsWith(s, T[i].key \o <<"/">>)
    /\ Len(s) > Len(T[i].key) + 1
    /\ s[Len(T[i].key) + 2] # "/"

\* s matches no key exactly and no key as a "/"-prefix
Unmatched(T, s) ==
    /\ ~HasKey(T, s)
    /\ \A i \in DOMAIN T : ~StartsWith(s, T[i].key \o <<"/">>)

\* the value of the entry with a single trailing "/" removed, followed by the
\* specifier from the character after the key
C8_Mapped(entry, s) ==
    LET v == entry.value
    IN  (IF v # <<>> /\ v[Len(v)] = "/" THEN SubSeq(v, 1, Len(v) - 1) ELSE v)
            \o SubSeq(s, Len(entry.key) + 1, Len(s))

\* C7: whenever the specifier is an exact key of the import table,
\* resolveSpecifier returns the value of that key, verbatim.
C7_ExactKeyVerbatim ==
    (rw.pc = "resolved" /\ HasKey(rw.imports, rw.specifier))
        => rw.resolved = Get(rw.imports, rw.specifier)

\* C8 as stated: for every key k of the table and every specifier k + "/" + r
\* (r not empty, not starting with "/"), resolveSpecifier returns the value of
\* k without one trailing "/", followed by "/" + r.
C8_SubpathOfEveryKey ==
    rw.pc = "resolved" =>
        \A i \in DOMAIN rw.imports :
            IsSubpathOf(rw.imports, i, rw.specifier)
                => rw.resolved = C8_Mapped(rw.imports[i], rw.specifier)

\* C8 as amended: the same, for the first key in the table's order that is a
\* "/"-prefix of the specifier, when the specifier is not itself a key with a
\* non-empty value and has no quote character at either end.
C8_SubpathOfFirstKey ==
    rw.pc = "resolved" =>
        \A i \in DOMAIN rw.imports :
            ( /\ IsSubpathOf(rw.imports, i, rw.specifier)
              /\ ~HasQuote(rw.specifier)
              /\ ~(HasKey(rw.imports, rw.specifier) /\ Get(rw.imports, rw.specifier) # <<>>)
              /\ \A j \in 1..(i - 1) :
                    ~StartsWith(rw.specifier, rw.imports[j].key \o <<"/">>) )
                => rw.resolved = C8_Mapped(rw.imports[i], rw.specifier)

\* a table with two keys that are both "/"-prefixes of the specifier, resolved
\* by the first, whose value ends in "/"
C8_Witness ==
    /\ rw.pc = "resolved"
    /\ Len(rw.imports) = 2
    /\ \A i \in DOMAIN rw.imports : IsSubpathOf(rw.imports, i, rw.specifier)
    /\ ~HasKey(rw.imports, rw.specifier)
    /\ rw.imports[1].value = <<"b", "/">>
    /\ rw.resolved = <<"b">> \o SliceFrom(rw.specifier, Len(rw.imports[1].key))

\* C9: a key that ends in "/" maps every specifier that begins with it: the
\* specifier resolves to the key's value followed by the rest of the
\* specifier, and import "std/path/mod.ts" under {"std/": "https://deno.land/std/"}
\* is rewritten to import "https://deno.land/std/path/mod.ts".
C9_TrailingSlashKey ==
    /\ (rw.pc = "rewritten" /\ rw.imports = StdImports
           /\ rw.source = <<ImportOf(StdSpecifier)>>)
          => rw.output = <<ImportOf(StdResolved)>>
    /\ (rw.pc = "resolved" /\ Len(rw.imports) = 1
           /\ rw.imports[1].key = <<"a", "/">>
           /\ StartsWith(rw.specifier, rw.imports[1].key)
           /\ rw.specifier # rw.imports[1].key)
          => rw.resolved = rw.imports[1].value
                               \o SliceFrom(rw.specifier, Len(rw.imports[1].key))

\* the specifiers of a source text: the module specifier of each statement,
\* the string literals of a concatenation and the specifier of the directive
\* of the comment
SpecifiersIn(src) ==
    {src[i].spec : i \in {i \in DOMAIN src : src[i].kind # "Comment"}}
    \cup UNION {{src[i].rest[j].text :
                    j \in {j \in DOMAIN src[i].rest : src[i].rest[j].kind = "StringLiteral"}} :
                 i \in DOMAIN src}
    \cup {SubSeq(src[i].spec, TokenStart(src[i].spec), TokenEnd(src[i].spec)) :
              i \in {i \in DOMAIN src : src[i].kind = "Comment"
                                           /\ MatchesAt(src[i].spec) # {}}}

AllUnmatched(T, src) == \A x \in SpecifiersIn(src) : Unmatched(T, x)

C11_Idempotent ==
    rw.pc = "rewritten" => rewriteImports(rw.imports, rw.output) = rw.output

\* a dynamic import: a call whose callee is the import keyword
IsDynamicImport(node) == node.kind = "CallExpression" /\ node.callee = ImportKeyword

\* C12: in a dynamic import whose argument is a "+" concatenation of more than
\* two operands, the string literal that comes first is replaced by what
\* resolveSpecifier returns for it when it matches a key of the table, and no
\* operand that is not a literal is altered.
C12_ConcatenationLiteral ==
    rw.pc = "rewritten" =>
        \A i \in DOMAIN rw.source :
            (IsDynamicImport(rw.source[i]) /\ Len(rw.source[i].rest) >= 2) =>
                /\ (~Unmatched(rw.imports, rw.source[i].spec) /\ ~HasQuote(rw.source[i].spec))
                      => rw.output[i].spec = resolveSpecifier(rw.imports, rw.source[i].spec)
                /\ \A j \in DOMAIN rw.source[i].rest :
                      rw.source[i].rest[j].kind # "StringLiteral"
                          => rw.output[i].rest[j] = rw.source[i].rest[j]

\* C13: when the comment before the first statement carries the directive
\* and the specifier after it resolves to another value, the rewritten comment
\* is the comment with that specifier, where it stands after the directive,
\* replaced by the value, and with every other character as it was.
C13_OnlyDirectiveSpecifier ==
    (rw.pc = "rewritten" /\ rw.source[1].kind = "Comment"
        /\ MatchesAt(rw.source[1].spec) # {}) =>
        LET text     == rw.source[1].spec
            from     == TokenStart(text)
            to       == TokenEnd(text)
            resolved == resolveSpecifier(rw.imports, SubSeq(text, from, to))
        IN  resolved # SubSeq(text, from, to) =>
                rw.output[1].spec = SubSeq(text, 1, from - 1) \o resolved
                                        \o SubSeq(text, to + 1, Len(text))

\* C17: within one rewriteImports call the same specifier is rewritten to the
\* same value at every syntactic position: import(s), with or without await
\* before it, comes out with the specifier that a static import of s comes
\* out with (s without quote characters at its ends).
C17_SameAtEveryPosition ==
    rw.pc = "rewritten" =>
        \A i \in DOMAIN rw.source :
            (IsDynamicImport(rw.source[i]) /\ rw.source[i].rest = <<>>
                /\ ~HasQuote(rw.source[i].spec)) =>
                rw.output[i].spec =
                    rewriteImports(rw.imports, <<ImportOf(rw.source[i].spec)>>)[1].spec

====
